---------------------------- MODULE Spec2Model ----------------------------
(***************************************************************************)
(* AES block cipher with a round-by-round trace (EECE455/aes_implementa-   *)
(* tion.py): the AES class, its encrypt method run step by step by one or  *)
(* more callers, and the Flask /encrypt route that wraps it.               *)
(*                                                                         *)
(* Python values are modelled as follows.  bytes and lists are sequences   *)
(* (index k of the source is index k+1 here); a str that is parsed is a    *)
(* sequence of one-character strings; a str that is only produced is a     *)
(* TLA+ string; a dict is a function from its keys; an int is an Int.      *)
(* A call that raises yields [exc |-> <exception type>], a call that       *)
(* returns v yields [exc |-> "none", val |-> v].                           *)
(***************************************************************************)
EXTENDS Integers, Sequences, FiniteSets, TLC

VARIABLES
    sbox,     \* AES.sbox, a class attribute: one list shared by every instance
    rcon,     \* AES.rcon, a class attribute: one list shared by every instance
    inst,     \* the AES objects: inst[o] is NoInst or [key_size, nk, nr]
    call,     \* call[c]: the frame of invocation c (its position, arguments and locals)
    hx_in,    \* the argument of a lone hex_to_bytes call
    hx_out,   \* and what that call gave
    arg,      \* the argument of a helper method called on its own
    ret       \* and the values the helper calls made on it gave, in order

vars ==
    << sbox, rcon, inst, call, hx_in, hx_out, arg, ret >>

-----------------------------------------------------------------------------
(* Python primitives *)

Ok(v) ==
    [exc |-> "none", val |-> v]

Raise(e) ==
    [exc |-> e]

IsOk(r) ==
    r.exc = "none"

\* x ^ y on one bit
BitXor(x, y) ==
    (x + y) % 2

RECURSIVE NibbleXor(_, _, _)
NibbleXor(x, y, n) ==
    IF n = 0 THEN 0
    ELSE BitXor(x % 2, y % 2) + 2 * NibbleXor(x \div 2, y \div 2, n - 1)

XorTable ==
    [x \in 0..15 |-> [y \in 0..15 |-> NibbleXor(x, y, 4)]]

\* x ^ y on non-negative ints of any width, four bits at a time
RECURSIVE Xor(_, _)
Xor(x, y) ==
    IF x < 16 /\ y < 16 THEN XorTable[x][y]
    ELSE XorTable[x % 16][y % 16] + 16 * Xor(x \div 16, y \div 16)

\* whether 0-based index k is inside list s (k is never negative here)
InRange(s, k) ==
    k >= 0 /\ k < Len(s)

\* s[k] with the source's 0-based k
At(s, k) ==
    s[k + 1]

\* a list of four items, built item by item
List4(F(_)) ==
    << F(1), F(2), F(3), F(4) >>

\* a list of four lists of four items
Matrix4(F(_, _)) ==
    List4(LAMBDA i : List4(LAMBDA j : F(i, j)))

-----------------------------------------------------------------------------
(* The class attributes, as the class body sets them *)

AES_sbox ==
<<
     99, 124, 119, 123, 242, 107, 111, 197,  48,   1, 103,  43, 254, 215, 171, 118,
    202, 130, 201, 125, 250,  89,  71, 240, 173, 212, 162, 175, 156, 164, 114, 192,
    183, 253, 147,  38,  54,  63, 247, 204,  52, 165, 229, 241, 113, 216,  49,  21,
      4, 199,  35, 195,  24, 150,   5, 154,   7,  18, 128, 226, 235,  39, 178, 117,
      9, 131,  44,  26,  27, 110,  90, 160,  82,  59, 214, 179,  41, 227,  47, 132,
     83, 209,   0, 237,  32, 252, 177,  91, 106, 203, 190,  57,  74,  76,  88, 207,
    208, 239, 170, 251,  67,  77,  51, 133,  69, 249,   2, 127,  80,  60, 159, 168,
     81, 163,  64, 143, 146, 157,  56, 245, 188, 182, 218,  33,  16, 255, 243, 210,
    205,  12,  19, 236,  95, 151,  68,  23, 196, 167, 126,  61, 100,  93,  25, 115,
     96, 129,  79, 220,  34,  42, 144, 136,  70, 238, 184,  20, 222,  94,  11, 219,
    224,  50,  58,  10,  73,   6,  36,  92, 194, 211, 172,  98, 145, 149, 228, 121,
    231, 200,  55, 109, 141, 213,  78, 169, 108,  86, 244, 234, 101, 122, 174,   8,
    186, 120,  37,  46,  28, 166, 180, 198, 232, 221, 116,  31,  75, 189, 139, 138,
    112,  62, 181, 102,  72,   3, 246,  14,  97,  53,  87, 185, 134, 193,  29, 158,
    225, 248, 152,  17, 105, 217, 142, 148, 155,  30, 135, 233, 206,  85,  40, 223,
    140, 161, 137,  13, 191, 230,  66, 104,  65, 153,  45,  15, 176,  84, 187,  22
>>

AES_rcon ==
    << 1, 2, 4, 8, 16, 32, 64, 128, 27, 54, 108, 216, 171, 77, 154, 47 >>

\* (variant: one round too many)
AES_initExtraRound(key_size) ==
    LET nk == key_size \div 32
    IN  [key_size |-> key_size, nk |-> nk, nr |-> nk + 7]

\* AES.__init__(self, key_size)
AES_init(key_size) ==
    LET nk == key_size \div 32
    IN  [key_size |-> key_size, nk |-> nk, nr |-> nk + 6]

-----------------------------------------------------------------------------
(* Codec *)

HexLowerDigits ==
    << "0", "1", "2", "3", "4", "5", "6", "7", "8", "9", "a", "b", "c", "d", "e", "f" >>

HexUpperDigits ==
    << "0", "1", "2", "3", "4", "5", "6", "7", "8", "9", "A", "B", "C", "D", "E", "F" >>

\* the characters Py_ISSPACE accepts
AsciiSpace ==
    { " ", "\t", "\n", "\r", "\f" }

IsHexDigit(ch) ==
    \E v \in 1..16 : ch = HexLowerDigits[v] \/ ch = HexUpperDigits[v]

\* _PyLong_DigitValue of a hexadecimal digit
DigitValue(ch) ==
    (CHOOSE v \in 1..16 : ch = HexLowerDigits[v] \/ ch = HexUpperDigits[v]) - 1

\* whether old occurs in s at position i (1-based)
OccursAt(s, old, i) ==
    /\ i >= 1
    /\ i + Len(old) - 1 <= Len(s)
    /\ SubSeq(s, i, i + Len(old) - 1) = old

\* the items of s whose positions satisfy Keep, in order
KeepPositions(s, Keep(_)) ==
    LET tagged == [k \in 1..Len(s) |-> << s[k], Keep(k) >>]
        kept   == SelectSeq(tagged, LAMBDA t : t[2])
    IN  [k \in 1..Len(kept) |-> kept[k][1]]

\* str.replace(old, ''): every occurrence of old is dropped.  Python drops the
\* non-overlapping occurrences it finds from left to right; no two occurrences
\* of " ", "0x" or "\n" overlap, so that is every occurrence.
StrRemove(s, old) ==
    KeepPositions(s, LAMBDA k : ~\E i \in (k - Len(old) + 1)..k : OccursAt(s, old, i))

\* bytes.fromhex: before each byte any run of white space is skipped, then two
\* hexadecimal digits must follow one another; white space may end the string.
\* So the characters that are not white space pair up, in order, into adjacent
\* hexadecimal digits, or ValueError is raised.
FromHex(s) ==
    LET pos == KeepPositions([k \in 1..Len(s) |-> k], LAMBDA k : s[k] \notin AsciiSpace)
        n   == Len(pos)
    IN  IF \E k \in 1..n : ~IsHexDigit(s[pos[k]]) THEN Raise("ValueError")
        ELSE IF n % 2 = 1 THEN Raise("ValueError")
        ELSE IF \E b \in 1..(n \div 2) : pos[2 * b] # pos[2 * b - 1] + 1
             THEN Raise("ValueError")
        ELSE Ok([b \in 1..(n \div 2) |->
                    16 * DigitValue(s[pos[2 * b - 1]]) + DigitValue(s[pos[2 * b]])])

\* the cleaning of hex_to_bytes: three replace calls in the source's order
HexClean(hex_string) ==
    StrRemove(StrRemove(StrRemove(hex_string, << " " >>), << "0", "x" >>), << "\n" >>)

hex_to_bytes(hex_string) ==
    FromHex(HexClean(hex_string))

\* f"{byte:02X}"
FormatByte(byte) ==
    HexUpperDigits[(byte \div 16) + 1] \o HexUpperDigits[(byte % 16) + 1]

\* str.upper() on one character of bytes.hex()
Upper(ch) ==
    HexUpperDigits[DigitValue(ch) + 1]

\* the strings of a list joined into one string
RECURSIVE Join(_, _, _)
Join(parts, lo, hi) ==
    IF lo > hi THEN ""
    ELSE IF lo = hi THEN parts[lo]
    ELSE Join(parts, lo, (lo + hi) \div 2) \o Join(parts, ((lo + hi) \div 2) + 1, hi)

\* data.hex().upper()
bytes_to_hex(data) ==
    Join([k \in 1..Len(data) |->
             Upper(HexLowerDigits[(data[k] \div 16) + 1])
             \o Upper(HexLowerDigits[(data[k] % 16) + 1])],
         1, Len(data))

\* (variant: row.append(data[4*i + j]), the bytes laid out row by row)
bytes_to_matrix_by_rows(data) ==
    IF \E i \in 0..3, j \in 0..3 : ~InRange(data, 4 * i + j)
    THEN Raise("IndexError")
    ELSE Ok(Matrix4(LAMBDA i, j : At(data, 4 * (i - 1) + (j - 1))))

\* matrix[i][j] = data[4*j + i]; an index past the end of data raises IndexError
bytes_to_matrix(data) ==
    IF \E i \in 0..3, j \in 0..3 : ~InRange(data, 4 * j + i)
    THEN Raise("IndexError")
    ELSE Ok(Matrix4(LAMBDA i, j : At(data, 4 * (j - 1) + (i - 1))))

\* data[4*j + i] = matrix[i][j]
matrix_to_bytes(matrix) ==
    [k \in 1..16 |-> matrix[((k - 1) % 4) + 1][((k - 1) \div 4) + 1]]

\* one two-digit upper-case string per cell; the argument may have any number of rows
matrix_to_hex(matrix) ==
    [i \in 1..Len(matrix) |-> [j \in 1..Len(matrix[i]) |-> FormatByte(matrix[i][j])]]

-----------------------------------------------------------------------------
(* KeyScheduler *)

\* temp = [temp[1], temp[2], temp[3], temp[0]]
RotWord(temp) ==
    << temp[2], temp[3], temp[4], temp[1] >>

\* temp = [self.sbox[b] for b in temp]
SubWord(temp) ==
    List4(LAMBDA k : At(sbox, temp[k]))

\* the value of temp that the loop body XORs into word i, or the IndexError of
\* self.rcon[i // self.nk - 1]
ScheduleTemp(slf, w, i) ==
    LET temp == At(w, i - 1)
    IN  IF i % slf.nk = 0
        THEN LET sub == SubWord(RotWord(temp))
             IN  IF ~InRange(rcon, (i \div slf.nk) - 1)
                 THEN Raise("IndexError")
                 ELSE Ok([sub EXCEPT ![1] = Xor(sub[1], At(rcon, (i \div slf.nk) - 1))])
        ELSE IF slf.nk > 6 /\ i % slf.nk = 4
             THEN Ok(SubWord(temp))
             ELSE Ok(temp)

\* (variant: temp = w[i-1] with no copy, and RotWord, SubWord and the Rcon XOR done
\* in place on it, so that word i-1 is overwritten with temp)
RECURSIVE ScheduleIterationsInPlace(_, _, _, _)
ScheduleIterationsInPlace(slf, w, i, stop) ==
    IF i >= stop THEN Ok(w)
    ELSE IF ~InRange(w, i - 1) THEN Raise("IndexError")
    ELSE LET temp == ScheduleTemp(slf, w, i)
         IN  IF ~IsOk(temp) THEN temp
             ELSE ScheduleIterationsInPlace(slf,
                      Append([w EXCEPT ![i] = temp.val],
                             List4(LAMBDA j : Xor(At(w, i - slf.nk)[j], temp.val[j]))),
                      i + 1, stop)

\* the iterations i .. stop-1 of "for i in range(self.nk, 4 * (self.nr + 1))",
\* w being the list built so far: the list after them, or the exception raised
RECURSIVE ScheduleIterations(_, _, _, _)
ScheduleIterations(slf, w, i, stop) ==
    IF i >= stop THEN Ok(w)
    ELSE IF ~InRange(w, i - 1) THEN Raise("IndexError")
    ELSE LET temp == ScheduleTemp(slf, w, i)
         IN  IF ~IsOk(temp) THEN temp
             ELSE ScheduleIterations(slf,
                      Append(w, List4(LAMBDA j : Xor(At(w, i - slf.nk)[j], temp.val[j]))),
                      i + 1, stop)

\* the same loop from iteration i to its end, run four iterations at a time
\* (the evaluation stays shallow; the iterations and their order are the source's)
RECURSIVE ScheduleLoop(_, _, _)
ScheduleLoop(slf, w, i) ==
    LET total == 4 * (slf.nr + 1)
        stop  == IF i + 4 < total THEN i + 4 ELSE total
        part  == ScheduleIterations(slf, w, i, stop)
    IN  IF i >= total THEN Ok(w)
        ELSE IF ~IsOk(part) THEN part
        ELSE ScheduleLoop(slf, part.val, stop)

\* key_expansion(self, key): the list of words, or the exception raised
key_expansion(slf, key_arg) ==
    LET decoded == hex_to_bytes(key_arg)
    IN  IF ~IsOk(decoded) THEN decoded
        ELSE LET kb == decoded.val
             IN  IF \E i \in 0..(slf.nk - 1), k \in 0..3 : ~InRange(kb, 4 * i + k)
                 THEN Raise("IndexError")
                 ELSE ScheduleLoop(slf,
                          [i \in 1..slf.nk |->
                              << At(kb, 4 * (i - 1)), At(kb, 4 * (i - 1) + 1),
                                 At(kb, 4 * (i - 1) + 2), At(kb, 4 * (i - 1) + 3) >>],
                          slf.nk)

-----------------------------------------------------------------------------
(* GaloisField and RoundPipeline *)

\* state[i][j] ^= round_key[i][j]
add_round_key(st, round_key) ==
    Matrix4(LAMBDA i, j : Xor(st[i][j], round_key[i][j]))

\* state[i][j] = self.sbox[state[i][j]]
sub_bytes(st) ==
    Matrix4(LAMBDA i, j : At(sbox, st[i][j]))

shift_rows(st) ==
    << st[1],
       << st[2][2], st[2][3], st[2][4], st[2][1] >>,
       << st[3][3], st[3][4], st[3][1], st[3][2] >>,
       << st[4][4], st[4][1], st[4][2], st[4][3] >> >>

\* the loop of galois_mult with n iterations left; a is shifted without a mask
RECURSIVE GaloisLoop(_, _, _, _)
GaloisLoop(a, b, p, n) ==
    IF n = 0 THEN p
    ELSE LET p1 == IF b % 2 = 1 THEN Xor(p, a) ELSE p
             hi_bit_set == (a \div 128) % 2 = 1
             a1 == IF hi_bit_set THEN Xor(2 * a, 27) ELSE 2 * a
         IN  GaloisLoop(a1, b \div 2, p1, n - 1)

\* (variant: return p, the last line's mask left out)
galois_mult_unmasked(a, b) ==
    GaloisLoop(a, b, 0, 8)

galois_mult(a, b) ==
    GaloisLoop(a, b, 0, 8) % 256

\* column i of mix_columns(state), top to bottom
MixColumn(s0, s1, s2, s3) ==
    << Xor(Xor(Xor(galois_mult(2, s0), galois_mult(3, s1)), s2), s3),
       Xor(Xor(Xor(s0, galois_mult(2, s1)), galois_mult(3, s2)), s3),
       Xor(Xor(Xor(s0, s1), galois_mult(2, s2)), galois_mult(3, s3)),
       Xor(Xor(Xor(galois_mult(3, s0), s1), s2), galois_mult(2, s3)) >>

mix_columns(st) ==
    LET col == List4(LAMBDA i : MixColumn(st[1][i], st[2][i], st[3][i], st[4][i]))
    IN  Matrix4(LAMBDA r, i : col[i][r])

-----------------------------------------------------------------------------
(* Encryptor: the pieces of encrypt *)

\* round_keys: entry i holds the four schedule words 4i .. 4i+3, one word per row
BuildRoundKeys(slf, ek) ==
    [i \in 1..(slf.nr + 1) |-> [j \in 1..4 |-> At(ek, 4 * (i - 1) + (j - 1))]]

\* (variant: the transpose is forgotten and the words are used as rows)
RoundKeyMatrixAsRows(round_key) ==
    round_key

\* round_key_matrix: row i, column j is round_keys[r][j][i]
RoundKeyMatrix(round_key) ==
    Matrix4(LAMBDA i, j : round_key[j][i])

\* results as first built: initial_state, no round yet, every round key
InitialResults(slf, st, rks) ==
    [ initial_state |-> matrix_to_hex(st),
      rounds        |-> << >>,
      expanded_key  |-> [i \in 1..(slf.nr + 1) |->
                            [round |-> i - 1, key |-> matrix_to_hex(rks[i])]] ]

\* (variant: every record holds the one matrix object that the steps update in
\* place, not a copy of it)
AppendRoundSharingState(res, r, op, st) ==
    [res EXCEPT !.rounds =
        Append([k \in 1..Len(@) |-> [@[k] EXCEPT !.state = matrix_to_hex(st)]],
               [round |-> r, operation |-> op, state |-> matrix_to_hex(st)])]

\* results['rounds'].append({'round': .., 'operation': .., 'state': ..})
AppendRound(res, r, op, st) ==
    [res EXCEPT !.rounds =
        Append(@, [round |-> r, operation |-> op, state |-> matrix_to_hex(st)])]

\* results['final_ciphertext'] = ..
SetFinal(res, text) ==
    res @@ [final_ciphertext |-> text]

-----------------------------------------------------------------------------
(* Encryptor: encrypt, one step at a time.  A frame f holds the position pc  *)
(* of one invocation, its arguments and its local variables; each operator   *)
(* below is what one stretch of encrypt does to the frame.  The steps read   *)
(* sbox, rcon and the fields of the object f.self, and nothing else.         *)

Unset ==
    << >>

NoInst ==
    [key_size |-> -1, nk |-> -1, nr |-> -1]

IdleFrame ==
    [ pc |-> "idle", via |-> "none", self |-> "none", plaintext |-> Unset,
      key |-> Unset, req_key_size |-> -1, pt_bytes |-> Unset, key_bytes |-> Unset,
      state |-> Unset, expanded_key |-> Unset, round_keys |-> Unset,
      results |-> Unset, round_num |-> -1, round_stop |-> -1,
      outcome |-> Unset, response |-> Unset ]

\* the frame of aes.encrypt(plaintext, key) as the call begins, aes being object o
EntryFrame(how, o, plaintext_arg, key_arg, key_size_field) ==
    [ IdleFrame EXCEPT !.pc = "decode", !.via = how, !.self = o,
                       !.plaintext = plaintext_arg, !.key = key_arg,
                       !.req_key_size = key_size_field ]

\* an exception leaves encrypt: nothing is returned
Throw(f, e) ==
    [f EXCEPT !.pc = "raised", !.outcome = Raise(e)]

\* pt_bytes = self.hex_to_bytes(plaintext); key_bytes = self.hex_to_bytes(key)
EncDecode(f) ==
    LET p == hex_to_bytes(f.plaintext)
        k == hex_to_bytes(f.key)
    IN  IF ~IsOk(p) THEN Throw(f, p.exc)
        ELSE IF ~IsOk(k) THEN Throw([f EXCEPT !.pt_bytes = p.val], k.exc)
        ELSE [f EXCEPT !.pc = "init_state", !.pt_bytes = p.val, !.key_bytes = k.val]

\* state = self.bytes_to_matrix(pt_bytes)
EncInitState(f) ==
    LET m == bytes_to_matrix(f.pt_bytes)
    IN  IF ~IsOk(m) THEN Throw(f, m.exc)
        ELSE [f EXCEPT !.pc = "expand", !.state = m.val]

\* (variant: results is built first and a failed expansion hands it back as it is)
EncExpandKeyPartial(f) ==
    LET ek == key_expansion(inst[f.self], f.key)
        partial == [initial_state |-> matrix_to_hex(f.state), rounds |-> << >>,
                    expanded_key |-> << >>]
    IN  IF ~IsOk(ek)
        THEN [f EXCEPT !.pc = "returned", !.results = partial, !.outcome = Ok(partial)]
        ELSE [f EXCEPT !.pc = "round_keys", !.expanded_key = ek.val]

\* expanded_key = self.key_expansion(key)
EncExpandKey(f) ==
    LET ek == key_expansion(inst[f.self], f.key)
    IN  IF ~IsOk(ek) THEN Throw(f, ek.exc)
        ELSE [f EXCEPT !.pc = "round_keys", !.expanded_key = ek.val]

\* round_keys = [...]; results = {...}; the loop filling results['expanded_key']
EncRoundKeys(f) ==
    LET rks == BuildRoundKeys(inst[f.self], f.expanded_key)
    IN  [f EXCEPT !.pc = "initial", !.round_keys = rks,
                  !.results = InitialResults(inst[f.self], f.state, rks)]

\* where the loop "for round_num in range(1, stop)" goes after round r
LoopNext(f, r, stop) ==
    IF r < stop
    THEN [f EXCEPT !.pc = "main_sub", !.round_num = r, !.round_stop = stop]
    ELSE [f EXCEPT !.pc = "final_sub", !.round_stop = stop]

\* the initial round, then range(1, self.nr) is built and the loop entered
EncInitialRound(f) ==
    LET st == add_round_key(f.state, RoundKeyMatrix(At(f.round_keys, 0)))
    IN  LoopNext([f EXCEPT !.state = st,
                           !.results = AppendRound(@, 0, "Initial AddRoundKey", st)],
                 1, inst[f.self].nr)

EncMainSubBytes(f) ==
    LET st == sub_bytes(f.state)
    IN  [f EXCEPT !.pc = "main_shift", !.state = st,
                  !.results = AppendRound(@, f.round_num, "SubBytes", st)]

EncMainShiftRows(f) ==
    LET st == shift_rows(f.state)
    IN  [f EXCEPT !.pc = "main_mix", !.state = st,
                  !.results = AppendRound(@, f.round_num, "ShiftRows", st)]

EncMainMixColumns(f) ==
    LET st == mix_columns(f.state)
    IN  [f EXCEPT !.pc = "main_ark", !.state = st,
                  !.results = AppendRound(@, f.round_num, "MixColumns", st)]

\* the round's AddRoundKey, then the loop's next iteration or its end
EncMainAddRoundKey(f) ==
    LET st == add_round_key(f.state, RoundKeyMatrix(At(f.round_keys, f.round_num)))
    IN  LoopNext([f EXCEPT !.state = st,
                           !.results = AppendRound(@, f.round_num, "AddRoundKey", st)],
                 f.round_num + 1, f.round_stop)

EncFinalSubBytes(f) ==
    LET st == sub_bytes(f.state)
    IN  [f EXCEPT !.pc = "final_shift", !.state = st,
                  !.results = AppendRound(@, inst[f.self].nr, "SubBytes", st)]

\* (variant: the final round mixes the columns like a main round)
EncFinalShiftRowsAndMix(f) ==
    LET st == shift_rows(f.state)
        mx == mix_columns(st)
    IN  [f EXCEPT !.pc = "final_ark", !.state = mx,
                  !.results = AppendRound(AppendRound(@, inst[f.self].nr, "ShiftRows", st),
                                          inst[f.self].nr, "MixColumns", mx)]

EncFinalShiftRows(f) ==
    LET st == shift_rows(f.state)
    IN  [f EXCEPT !.pc = "final_ark", !.state = st,
                  !.results = AppendRound(@, inst[f.self].nr, "ShiftRows", st)]

EncFinalAddRoundKey(f) ==
    LET nr == inst[f.self].nr
        st == add_round_key(f.state, RoundKeyMatrix(At(f.round_keys, nr)))
    IN  [f EXCEPT !.pc = "finish", !.state = st,
                  !.results = AppendRound(@, nr, "Final AddRoundKey", st)]

\* ciphertext = ..; results['final_ciphertext'] = ..; return results
EncFinish(f) ==
    LET res == SetFinal(f.results, bytes_to_hex(matrix_to_bytes(f.state)))
    IN  [f EXCEPT !.pc = "returned", !.results = res, !.outcome = Ok(res)]

\* the positions at which encrypt has more to do
EncryptPcs ==
    { "decode", "init_state", "expand", "round_keys", "initial", "main_sub",
      "main_shift", "main_mix", "main_ark", "final_sub", "final_shift",
      "final_ark", "finish" }

\* the next stretch of encrypt in frame f
EncryptStep(f) ==
    CASE f.pc = "decode"      -> EncDecode(f)
      [] f.pc = "init_state"  -> EncInitState(f)
      [] f.pc = "expand"      -> EncExpandKey(f)
      [] f.pc = "round_keys"  -> EncRoundKeys(f)
      [] f.pc = "initial"     -> EncInitialRound(f)
      [] f.pc = "main_sub"    -> EncMainSubBytes(f)
      [] f.pc = "main_shift"  -> EncMainShiftRows(f)
      [] f.pc = "main_mix"    -> EncMainMixColumns(f)
      [] f.pc = "main_ark"    -> EncMainAddRoundKey(f)
      [] f.pc = "final_sub"   -> EncFinalSubBytes(f)
      [] f.pc = "final_shift" -> EncFinalShiftRows(f)
      [] f.pc = "final_ark"   -> EncFinalAddRoundKey(f)
      [] f.pc = "finish"      -> EncFinish(f)

\* the next stretch of encrypt, if there is one
StepIfRunning(f) ==
    IF f.pc \in EncryptPcs THEN EncryptStep(f) ELSE f

\* encrypt run from frame f to its return or its exception with nothing else
\* running in between (four stretches at a time: the evaluation stays shallow)
RECURSIVE RunAlone(_)
RunAlone(f) ==
    IF f.pc \in EncryptPcs
    THEN RunAlone(StepIfRunning(StepIfRunning(StepIfRunning(EncryptStep(f)))))
    ELSE f

\* encrypt(self, plaintext, key) called on object o and run alone: what the
\* caller gets
encrypt(o, plaintext_arg, key_arg) ==
    RunAlone(EntryFrame("direct", o, plaintext_arg, key_arg, -1)).outcome

-----------------------------------------------------------------------------
(* The callers' inputs *)

\* demo.py: message, key_128, key_192, key_256
PT_FIPS ==
    << "0", "0", "1", "1", "2", "2", "3", "3", "4", "4", "5", "5", "6", "6", "7", "7",
       "8", "8", "9", "9", "a", "a", "b", "b", "c", "c", "d", "d", "e", "e", "f", "f" >>

KEY_256 ==
    << "0", "0", "0", "1", "0", "2", "0", "3", "0", "4", "0", "5", "0", "6", "0", "7",
       "0", "8", "0", "9", "0", "a", "0", "b", "0", "c", "0", "d", "0", "e", "0", "f",
       "1", "0", "1", "1", "1", "2", "1", "3", "1", "4", "1", "5", "1", "6", "1", "7",
       "1", "8", "1", "9", "1", "a", "1", "b", "1", "c", "1", "d", "1", "e", "1", "f" >>

KEY_128 ==
    SubSeq(KEY_256, 1, 32)

KEY_192 ==
    SubSeq(KEY_256, 1, 48)

\* 20 bytes, the key of an "AES-160"
KEY_160 ==
    SubSeq(KEY_256, 1, 40)

\* n copies of "00"
Zeros(n) ==
    [k \in 1..(2 * n) |-> "0"]

\* "0x00 0x11 0x22 0x33 00112233 ..." written with prefixes and spaces: the
\* bytes of PT_FIPS
PT_PREFIXED ==
    << "0", "x", "0", "0", " ", "0", "x", "1", "1", " " >> \o SubSeq(PT_FIPS, 5, 16)
    \o << " ", "\n" >> \o SubSeq(PT_FIPS, 17, 32)

\* 16 zero bytes
PT_ZERO ==
    Zeros(16)

\* 15 bytes
PT_SHORT ==
    Zeros(15)

\* 17 bytes: PT_FIPS and one more
PT_LONG ==
    PT_FIPS \o << "0", "0" >>

\* 32 characters, one of them no hexadecimal digit
PT_BADCHAR ==
    << "g" >> \o Tail(PT_FIPS)

\* 10 bytes
KEY_SHORT ==
    Zeros(10)

\* 17 bytes: KEY_128 and one more
KEY_128_EXTRA ==
    KEY_128 \o << "f", "f" >>

\* 32 characters, one of them the letter g
KEY_BADCHAR ==
    << "0", "g" >> \o SubSeq(KEY_128, 3, 32)

Calls ==
    { 1, 2 }

\* the objects a script keeps, and the one each request of the route makes
ScriptObjects ==
    { "a1", "a2" }

RouteObject(c) ==
    IF c = 1 THEN "r1" ELSE "r2"

Objects ==
    ScriptObjects \cup { RouteObject(c) : c \in Calls }

\* what the callers of one specification may do: who calls, on which objects,
\* with which key sizes, plaintexts (messages, for the route) and keys
WideEnv ==
    [ calls      |-> { 1 },
      objects    |-> { "a1" },
      key_sizes  |-> { 0, 64, 128, 130, 160, 192, 256 },
      plaintexts |-> { PT_FIPS, PT_PREFIXED, PT_SHORT, PT_LONG, PT_BADCHAR },
      messages   |-> { PT_FIPS, PT_PREFIXED, PT_SHORT, PT_LONG, PT_BADCHAR },
      keys       |-> { KEY_128, KEY_160, KEY_192, KEY_256, KEY_SHORT,
                       KEY_128_EXTRA, KEY_BADCHAR } ]

ConcEnv ==
    [ calls      |-> { 1, 2 },
      objects    |-> { "a1" },
      key_sizes  |-> { 128 },
      plaintexts |-> { PT_FIPS, PT_ZERO },
      messages   |-> { PT_FIPS },
      keys       |-> { KEY_128, KEY_SHORT } ]

-----------------------------------------------------------------------------
(* The callers *)

Constructed(o) ==
    inst[o] # NoInst

Busy(o) ==
    \E c \in Calls : call[c].pc # "idle" /\ call[c].self = o

\* aes = AES(key_size) in a script
Construct(o, key_size) ==
    /\ o \in ScriptObjects
    /\ ~Constructed(o)
    /\ inst' = [inst EXCEPT ![o] = AES_init(key_size)]
    /\ UNCHANGED << sbox, rcon, call, hx_in, hx_out, arg, ret >>

\* the script drops an object no call runs on
Discard(o) ==
    /\ o \in ScriptObjects
    /\ Constructed(o)
    /\ ~Busy(o)
    /\ inst' = [inst EXCEPT ![o] = NoInst]
    /\ UNCHANGED << sbox, rcon, call, hx_in, hx_out, arg, ret >>

\* aes.encrypt(plaintext, key) is called by a script (demo.py)
Invoke(c, o, plaintext_arg, key_arg) ==
    /\ call[c].pc = "idle"
    /\ o \in ScriptObjects
    /\ Constructed(o)
    /\ call' = [call EXCEPT ![c] = EntryFrame("direct", o, plaintext_arg, key_arg, -1)]
    /\ UNCHANGED << sbox, rcon, inst, hx_in, hx_out, arg, ret >>

\* the script takes the result, or the exception, and goes on
Release(c) ==
    /\ \/ call[c].via = "direct" /\ call[c].pc \in { "returned", "raised" }
       \/ call[c].pc = "responded"
    /\ call' = [call EXCEPT ![c] = IdleFrame]
    /\ UNCHANGED << sbox, rcon, inst, hx_in, hx_out, arg, ret >>

\* message.replace(' ', '').replace('0x', '') of the route
RouteClean(text) ==
    StrRemove(StrRemove(text, << " " >>), << "0", "x" >>)

\* POST /encrypt arrives: data = request.get_json() and its three fields
RouteRequest(c, message, key_field, key_size) ==
    /\ call[c].pc = "idle"
    /\ call' = [call EXCEPT ![c] =
                   [IdleFrame EXCEPT !.pc = "validate", !.via = "route",
                                     !.plaintext = message, !.key = key_field,
                                     !.req_key_size = key_size]]
    /\ UNCHANGED << sbox, rcon, inst, hx_in, hx_out, arg, ret >>

\* the two length checks of the route, then aes = AES(key_size) and the call
RouteValidate(c) ==
    LET f == call[c]
    IN  /\ f.pc = "validate"
        /\ IF Len(RouteClean(f.plaintext)) # 32
           THEN /\ call' = [call EXCEPT ![c] =
                      [f EXCEPT !.pc = "responded",
                                !.response = [status |-> 400, error |-> "message length"]]]
                /\ inst' = inst
           ELSE IF Len(RouteClean(f.key)) # f.req_key_size \div 4
           THEN /\ call' = [call EXCEPT ![c] =
                      [f EXCEPT !.pc = "responded",
                                !.response = [status |-> 400, error |-> "key length"]]]
                /\ inst' = inst
           ELSE /\ inst' = [inst EXCEPT ![RouteObject(c)] = AES_init(f.req_key_size)]
                /\ call' = [call EXCEPT ![c] =
                      EntryFrame("route", RouteObject(c), f.plaintext, f.key,
                                 f.req_key_size)]
        /\ UNCHANGED << sbox, rcon, hx_in, hx_out, arg, ret >>

\* return jsonify(results), or the except clause: {'error': str(e)}, 500
RouteRespond(c) ==
    LET f == call[c]
    IN  /\ f.via = "route"
        /\ f.pc \in { "returned", "raised" }
        /\ call' = [call EXCEPT ![c] =
               [f EXCEPT !.pc = "responded",
                         !.response =
                             IF f.pc = "returned"
                             THEN [status |-> 200, body |-> f.outcome.val]
                             ELSE [status |-> 500, error |-> f.outcome.exc]]]
        /\ inst' = [inst EXCEPT ![RouteObject(c)] = NoInst]
        /\ UNCHANGED << sbox, rcon, hx_in, hx_out, arg, ret >>

-----------------------------------------------------------------------------
(* encrypt, stretch by stretch, run by invocation c *)

Decode(c) ==
    /\ call[c].pc = "decode"
    /\ call' = [call EXCEPT ![c] = EncDecode(@)]
    /\ UNCHANGED << sbox, rcon, inst, hx_in, hx_out, arg, ret >>

InitState(c) ==
    /\ call[c].pc = "init_state"
    /\ call' = [call EXCEPT ![c] = EncInitState(@)]
    /\ UNCHANGED << sbox, rcon, inst, hx_in, hx_out, arg, ret >>

\* (variant: the expansion uses up the shared table, rcon.pop(0) at a time)
ExpandKeyConsumingRcon(c) ==
    /\ call[c].pc = "expand"
    /\ call' = [call EXCEPT ![c] = EncExpandKey(@)]
    /\ rcon' = Tail(rcon) \o << 0 >>
    /\ UNCHANGED << sbox, inst, hx_in, hx_out, arg, ret >>

ExpandKey(c) ==
    /\ call[c].pc = "expand"
    /\ call' = [call EXCEPT ![c] = EncExpandKey(@)]
    /\ UNCHANGED << sbox, rcon, inst, hx_in, hx_out, arg, ret >>

RoundKeys(c) ==
    /\ call[c].pc = "round_keys"
    /\ call' = [call EXCEPT ![c] = EncRoundKeys(@)]
    /\ UNCHANGED << sbox, rcon, inst, hx_in, hx_out, arg, ret >>

InitialRound(c) ==
    /\ call[c].pc = "initial"
    /\ call' = [call EXCEPT ![c] = EncInitialRound(@)]
    /\ UNCHANGED << sbox, rcon, inst, hx_in, hx_out, arg, ret >>

\* (variant: the state is kept on the object, self.state, not in a local)
MainSubBytesOnSelf(c) ==
    /\ call[c].pc = "main_sub"
    /\ call' = [d \in Calls |->
                   IF d = c THEN EncMainSubBytes(call[c])
                   ELSE IF call[d].self = call[c].self /\ call[d].pc \in EncryptPcs
                           /\ call[d].state # Unset
                        THEN [call[d] EXCEPT !.state = EncMainSubBytes(call[c]).state]
                        ELSE call[d]]
    /\ UNCHANGED << sbox, rcon, inst, hx_in, hx_out, arg, ret >>

MainSubBytes(c) ==
    /\ call[c].pc = "main_sub"
    /\ call' = [call EXCEPT ![c] = EncMainSubBytes(@)]
    /\ UNCHANGED << sbox, rcon, inst, hx_in, hx_out, arg, ret >>

MainShiftRows(c) ==
    /\ call[c].pc = "main_shift"
    /\ call' = [call EXCEPT ![c] = EncMainShiftRows(@)]
    /\ UNCHANGED << sbox, rcon, inst, hx_in, hx_out, arg, ret >>

MainMixColumns(c) ==
    /\ call[c].pc = "main_mix"
    /\ call' = [call EXCEPT ![c] = EncMainMixColumns(@)]
    /\ UNCHANGED << sbox, rcon, inst, hx_in, hx_out, arg, ret >>

MainAddRoundKey(c) ==
    /\ call[c].pc = "main_ark"
    /\ call' = [call EXCEPT ![c] = EncMainAddRoundKey(@)]
    /\ UNCHANGED << sbox, rcon, inst, hx_in, hx_out, arg, ret >>

FinalSubBytes(c) ==
    /\ call[c].pc = "final_sub"
    /\ call' = [call EXCEPT ![c] = EncFinalSubBytes(@)]
    /\ UNCHANGED << sbox, rcon, inst, hx_in, hx_out, arg, ret >>

FinalShiftRows(c) ==
    /\ call[c].pc = "final_shift"
    /\ call' = [call EXCEPT ![c] = EncFinalShiftRows(@)]
    /\ UNCHANGED << sbox, rcon, inst, hx_in, hx_out, arg, ret >>

FinalAddRoundKey(c) ==
    /\ call[c].pc = "final_ark"
    /\ call' = [call EXCEPT ![c] = EncFinalAddRoundKey(@)]
    /\ UNCHANGED << sbox, rcon, inst, hx_in, hx_out, arg, ret >>

Finish(c) ==
    /\ call[c].pc = "finish"
    /\ call' = [call EXCEPT ![c] = EncFinish(@)]
    /\ UNCHANGED << sbox, rcon, inst, hx_in, hx_out, arg, ret >>

-----------------------------------------------------------------------------
(* Specifications *)

Init ==
    /\ sbox = AES_sbox
    /\ rcon = AES_rcon
    /\ inst = [o \in Objects |-> NoInst]
    /\ call = [c \in Calls |-> IdleFrame]
    /\ hx_in = << >>
    /\ hx_out = [exc |-> "unused"]
    /\ arg = [kind |-> "none"]
    /\ ret = << >>

Step(env) ==
    \/ \E o \in env.objects, ks \in env.key_sizes : Construct(o, ks)
    \/ \E o \in env.objects : Discard(o)
    \/ \E c \in env.calls, o \in env.objects, p \in env.plaintexts, k \in env.keys :
          Invoke(c, o, p, k)
    \/ \E c \in env.calls, m \in env.messages, k \in env.keys, ks \in env.key_sizes :
          RouteRequest(c, m, k, ks)
    \/ \E c \in env.calls :
          \/ RouteValidate(c)
          \/ RouteRespond(c)
          \/ Release(c)
          \/ Decode(c)
          \/ InitState(c)
          \/ ExpandKey(c)
          \/ RoundKeys(c)
          \/ InitialRound(c)
          \/ MainSubBytes(c)
          \/ MainShiftRows(c)
          \/ MainMixColumns(c)
          \/ MainAddRoundKey(c)
          \/ FinalSubBytes(c)
          \/ FinalShiftRows(c)
          \/ FinalAddRoundKey(c)
          \/ Finish(c)

\* one caller at a time, every kind of input
Next ==
    Step(WideEnv)

Spec ==
    Init /\ [][Next]_vars

\* two callers whose steps interleave, on one shared object or on the route's own
NextConc ==
    Step(ConcEnv)

SpecConc ==
    Init /\ [][NextConc]_vars

\* hex_to_bytes alone, on every short string over an alphabet of digits, of
\* letters that are no digits, and of white space
MaxHexLen ==
    4

HexAlphabet ==
    { "0", "1", "a", "B", "g", "x", " ", "\n", "\t" }

HexStrings ==
    UNION { [1..n -> HexAlphabet] : n \in 0..MaxHexLen }

InitHex ==
    /\ sbox = AES_sbox
    /\ rcon = AES_rcon
    /\ inst = [o \in Objects |-> NoInst]
    /\ call = [c \in Calls |-> IdleFrame]
    /\ hx_in \in HexStrings
    /\ hx_out = [exc |-> "pending"]
    /\ arg = [kind |-> "none"]
    /\ ret = << >>

\* self.hex_to_bytes(hx_in)
HexApply ==
    /\ hx_out.exc = "pending"
    /\ hx_out' = hex_to_bytes(hx_in)
    /\ UNCHANGED << sbox, rcon, inst, call, hx_in, arg, ret >>

NextHex ==
    HexApply

SpecHex ==
    InitHex /\ [][NextHex]_vars

\* bytes_to_matrix and matrix_to_bytes alone, one applied to what the other gave.
\* The inputs: sixteen bytes in arithmetic progression (all different when the
\* step is odd), sixteen bytes all zero but one, and the matrices filled with them.
Ramp(start, step) ==
    [k \in 1..16 |-> (start + step * (k - 1)) % 256]

OneHot(pos, byte) ==
    [k \in 1..16 |-> IF k = pos THEN byte ELSE 0]

BlockInputs ==
    { Ramp(start, step) : start \in 0..255, step \in { 0, 1, 7, 16, 255 } }
        \union { OneHot(pos, byte) : pos \in 1..16, byte \in { 1, 128, 255 } }

\* the matrix whose rows are the four quarters of block
RowsOf(block) ==
    Matrix4(LAMBDA i, j : block[4 * (i - 1) + j])

MatrixInputs ==
    { RowsOf(block) : block \in BlockInputs }

InitMatrix ==
    /\ sbox = AES_sbox
    /\ rcon = AES_rcon
    /\ inst = [o \in Objects |-> NoInst]
    /\ call = [c \in Calls |-> IdleFrame]
    /\ hx_in = << >>
    /\ hx_out = [exc |-> "unused"]
    /\ \/ \E b \in BlockInputs : arg = [kind |-> "bytes", value |-> b]
       \/ \E s \in MatrixInputs : arg = [kind |-> "matrix", value |-> s]
    /\ ret = << >>

\* the value the next helper call is made on, and what it is
Current ==
    IF ret = << >> THEN arg ELSE ret[Len(ret)]

\* self.bytes_to_matrix(data) on the current value
UnitBytesToMatrix ==
    /\ Len(ret) < 2
    /\ Current.kind = "bytes"
    /\ ret' = Append(ret, [kind |-> "matrix", value |-> bytes_to_matrix(Current.value).val])
    /\ UNCHANGED << sbox, rcon, inst, call, hx_in, hx_out, arg >>

\* self.matrix_to_bytes(matrix) on the current value
UnitMatrixToBytes ==
    /\ Len(ret) < 2
    /\ Current.kind = "matrix"
    /\ ret' = Append(ret, [kind |-> "bytes", value |-> matrix_to_bytes(Current.value)])
    /\ UNCHANGED << sbox, rcon, inst, call, hx_in, hx_out, arg >>

NextMatrix ==
    \/ UnitBytesToMatrix
    \/ UnitMatrixToBytes

SpecMatrix ==
    InitMatrix /\ [][NextMatrix]_vars

\* galois_mult alone: on every pair of bytes x, y, and on x with a third byte z
\* and with y ^ z
Bytes ==
    0..255

\* the eight one-bit bytes, of which every byte is the XOR of some, and 0xff
ThirdBytes ==
    { 1, 2, 4, 8, 16, 32, 64, 128, 255 }

InitGalois ==
    /\ sbox = AES_sbox
    /\ rcon = AES_rcon
    /\ inst = [o \in Objects |-> NoInst]
    /\ call = [c \in Calls |-> IdleFrame]
    /\ hx_in = << >>
    /\ hx_out = [exc |-> "unused"]
    /\ \E x \in Bytes, y \in Bytes, z \in ThirdBytes :
          arg = [kind |-> "bytes3", x |-> x, y |-> y, z |-> z]
    /\ ret = << >>

\* self.galois_mult(a, b) for the pairs made of x, y, z, y ^ z, 0 and 1
UnitGaloisMult ==
    /\ arg.kind = "bytes3"
    /\ ret = << >>
    /\ ret' = << [ xy   |-> galois_mult(arg.x, arg.y),
                   yx   |-> galois_mult(arg.y, arg.x),
                   xz   |-> galois_mult(arg.x, arg.z),
                   x_yz |-> galois_mult(arg.x, Xor(arg.y, arg.z)),
                   x1   |-> galois_mult(arg.x, 1),
                   x0   |-> galois_mult(arg.x, 0) ] >>
    /\ UNCHANGED << sbox, rcon, inst, call, hx_in, hx_out, arg >>

NextGalois ==
    UnitGaloisMult

SpecGalois ==
    InitGalois /\ [][NextGalois]_vars

\* key_expansion alone, one loop iteration at a time, ret being the list w.
\* The keys: the FIPS-197 keys, and keys of 4*Nk bytes in arithmetic progression.
HexOfBytes(data) ==
    [k \in 1..(2 * Len(data)) |->
        IF k % 2 = 1 THEN HexLowerDigits[(data[(k + 1) \div 2] \div 16) + 1]
        ELSE HexLowerDigits[(data[k \div 2] % 16) + 1]]

KeyRamp(n, start, step) ==
    [k \in 1..n |-> (start + step * (k - 1)) % 256]

ScheduleKeys(key_size) ==
    { HexOfBytes(KeyRamp(key_size \div 8, start, step)) :
          start \in { 0, 43, 255 }, step \in { 0, 1, 7, 255 } }

InitSchedule ==
    /\ sbox = AES_sbox
    /\ rcon = AES_rcon
    /\ inst = [o \in Objects |-> NoInst]
    /\ call = [c \in Calls |-> IdleFrame]
    /\ hx_in = << >>
    /\ hx_out = [exc |-> "unused"]
    /\ \E key_size \in { 128, 192, 256 } : \E key_arg \in ScheduleKeys(key_size) :
          arg = [kind |-> "key", self |-> AES_init(key_size), key |-> key_arg]
    /\ ret = << >>

\* key_bytes = self.hex_to_bytes(key) and the first loop: the key copied into
\* the first nk words
UnitKeyCopy ==
    /\ arg.kind = "key"
    /\ ret = << >>
    /\ ret' = LET kb == hex_to_bytes(arg.key).val
              IN  [i \in 1..arg.self.nk |->
                      << At(kb, 4 * (i - 1)), At(kb, 4 * (i - 1) + 1),
                         At(kb, 4 * (i - 1) + 2), At(kb, 4 * (i - 1) + 3) >>]
    /\ UNCHANGED << sbox, rcon, inst, call, hx_in, hx_out, arg >>

\* one iteration of the second loop: word i = len(w) is appended
UnitKeyWord ==
    /\ arg.kind = "key"
    /\ ret # << >>
    /\ Len(ret) < 4 * (arg.self.nr + 1)
    /\ ret' = ScheduleIterations(arg.self, ret, Len(ret), Len(ret) + 1).val
    /\ UNCHANGED << sbox, rcon, inst, call, hx_in, hx_out, arg >>

NextSchedule ==
    \/ UnitKeyCopy
    \/ UnitKeyWord

SpecSchedule ==
    InitSchedule /\ [][NextSchedule]_vars

-----------------------------------------------------------------------------
(* Properties *)

\* the key sizes of AES and the number of rounds FIPS-197 gives each
StandardKeySizes ==
    { 128, 192, 256 }

RoundsOf(key_size) ==
    CASE key_size = 128 -> 10
      [] key_size = 192 -> 12
      [] key_size = 256 -> 14

\* the key size of the object invocation c runs on
KeySizeOf(c) ==
    inst[call[c].self].key_size

Returned(c) ==
    call[c].pc = "returned"

\* invocation c has returned from encrypt(plaintext_arg, key_arg) on an AES(key_size)
ReturnedFrom(c, key_size, plaintext_arg, key_arg) ==
    /\ Returned(c)
    /\ KeySizeOf(c) = key_size
    /\ call[c].plaintext = plaintext_arg
    /\ call[c].key = key_arg

\* C1: the FIPS-197 Appendix C vectors: the plaintext 00112233445566778899aabbccddeeff
\* encrypts to 69C4E0D86A7B0430D8CDB78070B4C55A under AES(128) and the key 0001..0f,
\* to DDA97CA4864CDFE06EAF70A0EC0D7191 under AES(192) and the key 0001..17, and to
\* 8EA2B7CA516745BFEAFC49904B496089 under AES(256) and the key 0001..1f.
C1_KnownAnswers ==
    \A c \in Calls :
        /\ ReturnedFrom(c, 128, PT_FIPS, KEY_128)
              => call[c].outcome.val.final_ciphertext = "69C4E0D86A7B0430D8CDB78070B4C55A"
        /\ ReturnedFrom(c, 192, PT_FIPS, KEY_192)
              => call[c].outcome.val.final_ciphertext = "DDA97CA4864CDFE06EAF70A0EC0D7191"
        /\ ReturnedFrom(c, 256, PT_FIPS, KEY_256)
              => call[c].outcome.val.final_ciphertext = "8EA2B7CA516745BFEAFC49904B496089"

\* an AES-256 encryption of the FIPS vector has returned its ciphertext
C1_Witness ==
    \E c \in Calls :
        /\ ReturnedFrom(c, 256, PT_FIPS, KEY_256)
        /\ call[c].outcome.val.final_ciphertext = "8EA2B7CA516745BFEAFC49904B496089"

MainOperations ==
    << "SubBytes", "ShiftRows", "MixColumns", "AddRoundKey" >>

\* record k (from 1) of the trace of an encryption of nr rounds, as the
\* specification orders the steps
ExpectedStep(nr, k) ==
    IF k = 1 THEN [round |-> 0, operation |-> "Initial AddRoundKey"]
    ELSE IF k <= 4 * (nr - 1) + 1
         THEN [round |-> ((k - 2) \div 4) + 1, operation |-> MainOperations[((k - 2) % 4) + 1]]
    ELSE IF k = 4 * nr - 2 THEN [round |-> nr, operation |-> "SubBytes"]
    ELSE IF k = 4 * nr - 1 THEN [round |-> nr, operation |-> "ShiftRows"]
    ELSE [round |-> nr, operation |-> "Final AddRoundKey"]

\* the positions of encrypt at which results exists
TracePcs ==
    { "initial", "main_sub", "main_shift", "main_mix", "main_ark", "final_sub",
      "final_shift", "final_ark", "finish", "returned" }

\* C2: for every key size in {128,192,256} the trace is, at every moment, a prefix
\* of: (0, Initial AddRoundKey); SubBytes, ShiftRows, MixColumns, AddRoundKey for
\* each round 1..Nr-1 in increasing order; SubBytes, ShiftRows, Final AddRoundKey for
\* round Nr; and it is all of it at return.  No MixColumns record carries round 0 or
\* Nr; round numbers never decrease along the list.
C2_StepOrdering ==
    \A c \in Calls :
        (call[c].pc \in TracePcs /\ KeySizeOf(c) \in StandardKeySizes) =>
            LET rounds == call[c].results.rounds
                nr     == RoundsOf(KeySizeOf(c))
            IN  /\ Len(rounds) <= 4 * nr
                /\ \A k \in 1..Len(rounds) :
                      /\ rounds[k].round = ExpectedStep(nr, k).round
                      /\ rounds[k].operation = ExpectedStep(nr, k).operation
                      /\ rounds[k].operation = "MixColumns" => rounds[k].round \notin { 0, nr }
                      /\ k > 1 => rounds[k - 1].round <= rounds[k].round
                /\ Returned(c) => Len(rounds) = 4 * nr

\* an AES-192 encryption has returned, its last main round being round 11
C2_Witness ==
    \E c \in Calls :
        /\ Returned(c)
        /\ KeySizeOf(c) = 192
        /\ call[c].outcome.val.rounds[45].operation = "AddRoundKey"
        /\ call[c].outcome.val.rounds[45].round = 11
        /\ call[c].outcome.val.rounds[48].operation = "Final AddRoundKey"

\* C3: a returned trace has 4*Nr records, one of round 0 and the others of rounds
\* 1..Nr, Nr being 10, 12, 14 for AES-128, -192, -256; expanded_key has Nr+1 entries
\* whose round fields are 0, 1, .., Nr in order.
C3_RoundCount ==
    \A c \in Calls :
        (Returned(c) /\ KeySizeOf(c) \in StandardKeySizes) =>
            LET res == call[c].outcome.val
                nr  == RoundsOf(KeySizeOf(c))
            IN  /\ Len(res.rounds) = 4 * nr
                /\ { res.rounds[k].round : k \in 1..Len(res.rounds) } = 0..nr
                /\ Cardinality({ k \in 1..Len(res.rounds) : res.rounds[k].round = 0 }) = 1
                /\ Len(res.expanded_key) = nr + 1
                /\ \A i \in 1..Len(res.expanded_key) : res.expanded_key[i].round = i - 1

\* an AES-128 encryption has returned 40 step records and 11 round keys
C3_Witness ==
    \E c \in Calls :
        /\ Returned(c)
        /\ KeySizeOf(c) = 128
        /\ Len(call[c].outcome.val.rounds) = 40
        /\ Len(call[c].outcome.val.expanded_key) = 11

\* the bytes the plaintext argument of invocation c decodes to
DecodedPlaintext(c) ==
    hex_to_bytes(call[c].plaintext).val

DecodedKey(c) ==
    hex_to_bytes(call[c].key).val

\* C4: encrypt returns a ciphertext only for a plaintext that decodes to exactly
\* 16 bytes; any other length is an error, never a truncation.
C4_PlaintextLength ==
    \A c \in Calls : Returned(c) => Len(DecodedPlaintext(c)) = 16

\* C5: encrypt returns a ciphertext only for a key that decodes to exactly
\* 4*Nk bytes; bytes past the first 4*Nk are never ignored.
C5_KeyLength ==
    \A c \in Calls : Returned(c) => Len(DecodedKey(c)) = 4 * inst[call[c].self].nk

\* the positions of encrypt after the key expansion has run
ExpandedPcs ==
    { "round_keys", "initial", "main_sub", "main_shift", "main_mix", "main_ark",
      "final_sub", "final_shift", "final_ark", "finish", "returned" }

\* C6: no key expansion and no round transformation runs for a key size outside
\* {128,192,256}: Nk is always in {4,6,8} and Nr in {10,12,14}.
C6_KeySizeValidated ==
    \A c \in Calls :
        call[c].pc \in ExpandedPcs =>
            /\ KeySizeOf(c) \in StandardKeySizes
            /\ inst[call[c].self].nk \in { 4, 6, 8 }
            /\ inst[call[c].self].nr \in { 10, 12, 14 }

\* C7: when encrypt ends in an exception, no transformation has been applied (the
\* state, if built, is still the plaintext's matrix), no round key matrix and no
\* trace exist; what encrypt returns, and what the route answers with status 200,
\* is a whole trace with its final_ciphertext.
C7_FailFast ==
    \A c \in Calls :
        /\ call[c].pc = "raised" =>
              /\ DOMAIN call[c].results = { }
              /\ call[c].round_keys = Unset
              /\ \/ call[c].state = Unset
                 \/ call[c].state = bytes_to_matrix(call[c].pt_bytes).val
        /\ Returned(c) =>
              /\ "final_ciphertext" \in DOMAIN call[c].outcome.val
              /\ Len(call[c].outcome.val.rounds) > 0
        /\ (call[c].pc = "responded" /\ call[c].response.status = 200) =>
              "final_ciphertext" \in DOMAIN call[c].response.body

\* the latest failure there is: the key expansion raised after the state was built
C7_Witness ==
    \E c \in Calls :
        /\ call[c].pc = "raised"
        /\ call[c].outcome.exc = "IndexError"
        /\ call[c].state # Unset

\* The decoding C8 describes, read in the code's favour: white space is dropped
\* wherever it stands, "0x" is dropped wherever a byte may begin, every other
\* character has to be one of a pair of hex digits.
RECURSIVE ClaimedParse(_, _, _)
ClaimedParse(t, i, acc) ==
    IF i > Len(t) THEN Ok(acc)
    ELSE IF i < Len(t) /\ t[i] = "0" /\ t[i + 1] = "x" THEN ClaimedParse(t, i + 2, acc)
    ELSE IF i < Len(t) /\ IsHexDigit(t[i]) /\ IsHexDigit(t[i + 1])
         THEN ClaimedParse(t, i + 2, Append(acc, 16 * DigitValue(t[i]) + DigitValue(t[i + 1])))
    ELSE Raise("ValueError")

ClaimedDecode(s) ==
    ClaimedParse(SelectSeq(s, LAMBDA ch : ch \notin AsciiSpace), 1, << >>)

\* C8: hex_to_bytes removes white space and leading 0x prefixes and nothing else;
\* it fails exactly when what is left has odd length or holds a character that is
\* no hex digit, and returns the bytes otherwise.
C8_HexDecoding ==
    hx_out.exc # "pending" => hx_out = ClaimedDecode(hx_in)

\* encrypt has ended in invocation c, with a trace or with an exception
Ended(c) ==
    call[c].pc \in { "returned", "raised" }

SameInputs(c, d) ==
    /\ KeySizeOf(c) = KeySizeOf(d)
    /\ call[c].plaintext = call[d].plaintext
    /\ call[c].key = call[d].key

\* C9: encrypt is a function of plaintext, key and key size: two invocations with
\* the same three end the same way, with the same ciphertext, the same round
\* records and the same expanded key; and no invocation changes sbox, rcon, nk
\* or nr.
C9_Deterministic ==
    /\ sbox = AES_sbox
    /\ rcon = AES_rcon
    /\ \A o \in Objects : Constructed(o) => inst[o] = AES_init(inst[o].key_size)
    /\ \A c, d \in Calls :
          (Ended(c) /\ Ended(d) /\ SameInputs(c, d)) => call[c].outcome = call[d].outcome

\* two invocations on one object, same inputs, both returned
C9_Witness ==
    \E c, d \in Calls :
        /\ c # d
        /\ Returned(c) /\ Returned(d)
        /\ call[c].self = call[d].self
        /\ SameInputs(c, d)

\* C10: invocations that run at the same time, on one object or on several, do
\* not disturb each other: each ends as the same call ends when it is the only
\* one running, and until then holds the state, the round keys and the records
\* its own steps gave it; a step of one invocation changes no other invocation
\* and none of the shared tables.
C10_Independent ==
    /\ [](\A c \in Calls :
             Ended(c) => call[c].outcome
                           = encrypt(call[c].self, call[c].plaintext, call[c].key))
    /\ [][\A c \in Calls :
             (call[c].pc \in EncryptPcs /\ call'[c] # call[c]) =>
                 /\ call'[c] = EncryptStep(call[c])
                 /\ \A d \in Calls \ { c } : call'[d] = call[d]
                 /\ << sbox', rcon', inst' >> = << sbox, rcon, inst >>]_vars

\* one invocation has returned while another one, on the same object and with
\* another plaintext, is in the middle of its rounds
C10_Witness ==
    \E c, d \in Calls :
        /\ Returned(c)
        /\ call[d].pc \in { "main_sub", "main_shift", "main_mix", "main_ark" }
        /\ call[d].round_num >= 2
        /\ call[d].self = call[c].self
        /\ call[d].plaintext # call[c].plaintext

\* C11: matrix_to_bytes(bytes_to_matrix(b)) = b for sixteen bytes b,
\* bytes_to_matrix(matrix_to_bytes(s)) = s for a 4x4 matrix s of bytes, and
\* bytes_to_matrix(b)[row][col] = b[4*col + row] for row, col in 0..3.
C11_MatrixRoundTrip ==
    /\ Len(ret) = 2 => ret[2].value = arg.value
    /\ (Len(ret) >= 1 /\ arg.kind = "bytes") =>
          \A row \in 0..3, col \in 0..3 :
              At(At(ret[1].value, row), col) = At(arg.value, 4 * col + row)
    /\ (Len(ret) = 2 /\ arg.kind = "matrix") =>
          \A row \in 0..3, col \in 0..3 :
              At(At(ret[2].value, row), col) = At(ret[1].value, 4 * col + row)

\* the matrix of the bytes 0..15, row by row, has gone to bytes and back
C11_Witness ==
    /\ Len(ret) = 2
    /\ arg.kind = "matrix"
    /\ arg.value = RowsOf(Ramp(0, 1))

\* C12: for bytes x, y, z galois_mult gives a byte, galois_mult(x, 1) = x,
\* galois_mult(x, 0) = 0, galois_mult(x, y) = galois_mult(y, x) and
\* galois_mult(x, y ^ z) = galois_mult(x, y) ^ galois_mult(x, z), the running
\* value of a being shifted without a mask.
C12_GaloisMult ==
    ret # << >> =>
        /\ \A f \in DOMAIN ret[1] : ret[1][f] \in Bytes
        /\ ret[1].x1 = arg.x
        /\ ret[1].x0 = 0
        /\ ret[1].xy = ret[1].yx
        /\ ret[1].x_yz = Xor(ret[1].xy, ret[1].xz)

\* {57} . {83} = {c1} of FIPS-197 section 4.2 has been computed, a passing
\* 256 and the reduction by 0x1b being used on the way
C12_Witness ==
    /\ ret # << >>
    /\ arg.x = 87
    /\ arg.y = 131
    /\ ret[1].xy = 193
    /\ GaloisLoop(87, 131, 0, 8) >= 256

\* the byte a cell of a reported matrix shows
ByteOf(cell) ==
    CHOOSE byte \in Bytes : FormatByte(byte) = cell

\* the operations that XOR a round key into the state
AddRoundKeyOperations ==
    { "Initial AddRoundKey", "AddRoundKey", "Final AddRoundKey" }

\* the reported state the step of record k started from
StateBefore(res, k) ==
    IF k = 1 THEN res.initial_state ELSE res.rounds[k - 1].state

\* C13: the matrix reported as expanded_key[r].key is the round key matrix that
\* AddRoundKey uses in round r: its cell [row][j] is byte row of schedule word
\* 4r+j; so the state of every AddRoundKey record of round r is, cell by cell, the
\* state before it XOR expanded_key[r].key.
C13_ReportedRoundKeys ==
    \A c \in Calls :
        call[c].pc \in TracePcs =>
            LET res == call[c].results
                w   == call[c].expanded_key
            IN  /\ \A r \in 0..(Len(res.expanded_key) - 1), row \in 0..3, j \in 0..3 :
                      At(At(At(res.expanded_key, r).key, row), j)
                          = FormatByte(At(At(w, 4 * r + j), row))
                /\ \A k \in 1..Len(res.rounds) :
                      res.rounds[k].operation \in AddRoundKeyOperations =>
                          \A row \in 1..4, j \in 1..4 :
                              ByteOf(res.rounds[k].state[row][j])
                                  = Xor(ByteOf(StateBefore(res, k)[row][j]),
                                        ByteOf(At(res.expanded_key, res.rounds[k].round).key[row][j]))

\* the matrix of bytes a reported matrix shows
BytesOfReport(report) ==
    Matrix4(LAMBDA i, j : ByteOf(report[i][j]))

\* what the trace shows last: the last record's state, or initial_state
LastReported(res) ==
    IF res.rounds = << >> THEN res.initial_state ELSE res.rounds[Len(res.rounds)].state

\* C14: what the trace holds is never changed by a later step: a step leaves
\* initial_state and every record written before it as they were; the last
\* thing written is the state as the step left it; at return initial_state is
\* the column-major matrix of the plaintext and final_ciphertext is the
\* column-major readout of the state in the last record, a Final AddRoundKey.
C14_AppendOnly ==
    /\ [](\A c \in Calls :
             /\ call[c].pc \in TracePcs =>
                   /\ LastReported(call[c].results) = matrix_to_hex(call[c].state)
                   /\ call[c].results.initial_state
                         = matrix_to_hex(bytes_to_matrix(DecodedPlaintext(c)).val)
             /\ Returned(c) =>
                   LET res  == call[c].outcome.val
                       last == res.rounds[Len(res.rounds)]
                   IN  /\ last.operation = "Final AddRoundKey"
                       /\ res.final_ciphertext
                             = bytes_to_hex(matrix_to_bytes(BytesOfReport(last.state))))
    /\ [][\A c \in Calls :
             (call[c].pc \in TracePcs /\ call'[c].pc \in TracePcs) =>
                 LET old == call[c].results
                     new == call'[c].results
                 IN  /\ new.initial_state = old.initial_state
                     /\ new.expanded_key = old.expanded_key
                     /\ Len(new.rounds) >= Len(old.rounds)
                     /\ SubSeq(new.rounds, 1, Len(old.rounds)) = old.rounds]_vars

\* an AES-256 encryption has returned 56 records of which the first shows another
\* state than the last and than initial_state
C14_Witness ==
    \E c \in Calls :
        /\ Returned(c)
        /\ Len(call[c].outcome.val.rounds) = 56
        /\ call[c].outcome.val.rounds[1].state # call[c].outcome.val.rounds[56].state
        /\ call[c].outcome.val.rounds[1].state # call[c].outcome.val.initial_state

\* temp of word i as C15 gives it, from the words w before it
ClaimedTemp(nk, w, i) ==
    LET prev == At(w, i - 1)
    IN  IF i % nk = 0
        THEN LET sub == List4(LAMBDA k : At(AES_sbox, RotWord(prev)[k]))
             IN  [sub EXCEPT ![1] = Xor(@, At(AES_rcon, (i \div nk) - 1))]
        ELSE IF nk > 6 /\ i % nk = 4
             THEN List4(LAMBDA k : At(AES_sbox, prev[k]))
             ELSE prev

\* C15: for Nk in {4,6,8} and a key of 4*Nk bytes key_expansion gives 4*(Nr+1)
\* words (44, 52, 60); words 0..Nk-1 are the key bytes in order; word i >= Nk is
\* w[i-Nk] XOR temp, temp being SubWord(RotWord(w[i-1])) with Rcon[i/Nk - 1] XORed
\* into its first byte when i mod Nk = 0, SubWord(w[i-1]) when Nk > 6 and
\* i mod Nk = 4, and w[i-1] otherwise; computing a word changes none of the words
\* before it; the Rcon index is always inside the table.
C15_KeySchedule ==
    /\ [](ret # << >> =>
             LET nk == arg.self.nk
                 nr == arg.self.nr
                 kb == hex_to_bytes(arg.key).val
             IN  /\ Len(ret) <= 4 * (nr + 1)
                 /\ 4 * (nr + 1) = CASE nk = 4 -> 44 [] nk = 6 -> 52 [] nk = 8 -> 60
                 /\ \A i \in 0..(nk - 1), k \in 0..3 : At(At(ret, i), k) = At(kb, 4 * i + k)
                 /\ \A i \in nk..(Len(ret) - 1) :
                       /\ i % nk = 0 => InRange(AES_rcon, (i \div nk) - 1)
                       /\ \A k \in 1..4 :
                             At(ret, i)[k] = Xor(At(ret, i - nk)[k], ClaimedTemp(nk, ret, i)[k])
                 /\ Len(ret) = 4 * (nr + 1) => key_expansion(arg.self, arg.key) = Ok(ret))
    /\ [][ret # << >> => Len(ret') = Len(ret) + 1 /\ SubSeq(ret', 1, Len(ret)) = ret]_vars

\* the schedule of the FIPS-197 256-bit key is complete: 60 words, the last
\* one 6d68de36
C15_Witness ==
    /\ arg.kind = "key"
    /\ arg.key = KEY_256
    /\ Len(ret) = 60
    /\ ret[60] = << 109, 104, 222, 54 >>

=============================================================================
